---- MODULE Spec2Model ----
(***************************************************************************)
(* Model of mcp-server/src/readme_updater.py: the README / CHANGELOG       *)
(* patching operations of ReadmeUpdater.                                   *)
(*                                                                         *)
(* Text is a sequence of one-character strings.  Offsets named "start",    *)
(* "end" are Python offsets (0-based, end exclusive); TLA+ indexes are     *)
(* 1-based, so text[o + 1] is the character at Python offset o.            *)
(***************************************************************************)
EXTENDS Integers, Sequences, FiniteSets, TLC

VARIABLES readme_exists, readme, changelog_exists, changelog,
          is_git, head, call, inserted, base, steps,
          tasks, loop, config, response

vars == <<readme_exists, readme, changelog_exists, changelog,
          is_git, head, call, inserted, base, steps,
          tasks, loop, config, response>>

----------------------------------------------------------------------------
(* Bounds of the exploration.                                              *)

MaxSteps == 2

----------------------------------------------------------------------------
(* Characters and Python str primitives.                                   *)

NL == "\n"
SP == " "
TAB == "\t"

\* str.strip / str.rstrip / the regex class \s: whitespace characters
IsSpace(ch) == ch \in {SP, NL, TAB}

UpperLetters == <<"A","B","C","D","E","F","G","H","I","J","K","L","M",
                  "N","O","P","Q","R","S","T","U","V","W","X","Y","Z">>
LowerLetters == <<"a","b","c","d","e","f","g","h","i","j","k","l","m",
                  "n","o","p","q","r","s","t","u","v","w","x","y","z">>

\* str.lower on one character; also the folding of re.IGNORECASE
Lower(ch) ==
    IF \E i \in 1..26 : UpperLetters[i] = ch
    THEN LowerLetters[CHOOSE i \in 1..26 : UpperLetters[i] = ch]
    ELSE ch

LowerText(text) == [i \in 1..Len(text) |-> Lower(text[i])]

\* text[a:b] for 0 <= a, b (Python slice, clamped)
Slice(text, a, b) ==
    LET hi == IF b > Len(text) THEN Len(text) ELSE b
    IN  IF a >= hi THEN <<>> ELSE SubSeq(text, a + 1, hi)

\* text.startswith(prefix)
StartsWith(text, prefix) ==
    /\ Len(prefix) <= Len(text)
    /\ SubSeq(text, 1, Len(prefix)) = prefix

\* text.endswith('\n')
EndsWithNL(text) == Len(text) > 0 /\ text[Len(text)] = NL

\* needle in text
Contains(text, needle) ==
    \E o \in 0..(Len(text) - Len(needle)) :
        SubSeq(text, o + 1, o + Len(needle)) = needle

\* text.rstrip()
RECURSIVE RStrip(_)
RStrip(text) ==
    IF Len(text) > 0 /\ IsSpace(text[Len(text)])
    THEN RStrip(SubSeq(text, 1, Len(text) - 1))
    ELSE text

\* text.lstrip()
RECURSIVE LStrip(_)
LStrip(text) ==
    IF Len(text) > 0 /\ IsSpace(text[1]) THEN LStrip(Tail(text)) ELSE text

\* text.strip()
Strip(text) == LStrip(RStrip(text))

\* text.split('\n'): the list of lines, never empty
RECURSIVE Split(_)
Split(text) ==
    IF \E i \in 1..Len(text) : text[i] = NL
    THEN LET i == CHOOSE k \in 1..Len(text) :
                     text[k] = NL /\ \A j \in 1..(k - 1) : text[j] # NL
         IN  <<SubSeq(text, 1, i - 1)>> \o Split(SubSeq(text, i + 1, Len(text)))
    ELSE <<text>>

\* '\n'.join(lines)
RECURSIVE Join(_)
Join(lines) ==
    IF Len(lines) = 0 THEN <<>>
    ELSE IF Len(lines) = 1 THEN lines[1]
    ELSE lines[1] \o <<NL>> \o Join(Tail(lines))

\* lines.insert(index, x) for index >= 0: past the end it appends
ListInsert(lines, index, x) ==
    LET k == IF index > Len(lines) THEN Len(lines) ELSE index
    IN  SubSeq(lines, 1, k) \o <<x>> \o SubSeq(lines, k + 1, Len(lines))

----------------------------------------------------------------------------
(* re.search(rf"(#+\s+{re.escape(section_name)}.*?)((?=\n#+\s+)|$)",       *)
(*           content, re.DOTALL | re.IGNORECASE)                           *)

\* length of the run of '#' at offset o
RECURSIVE HashRun(_, _)
HashRun(text, o) ==
    IF o < Len(text) /\ text[o + 1] = "#" THEN 1 + HashRun(text, o + 1) ELSE 0

\* length of the run of \s at offset o
RECURSIVE SpaceRun(_, _)
SpaceRun(text, o) ==
    IF o < Len(text) /\ IsSpace(text[o + 1]) THEN 1 + SpaceRun(text, o + 1) ELSE 0

\* the escaped section name matches at offset o, ignoring case
NameAt(text, o, name) ==
    /\ o + Len(name) <= Len(text)
    /\ \A i \in 1..Len(name) : Lower(text[o + i]) = Lower(name[i])

\* widths w that \s+ can take after the '#' run at offset o so that the name follows
SpaceWidths(text, o, name) ==
    LET h == HashRun(text, o)
    IN  {w \in 1..SpaceRun(text, o + h) : NameAt(text, o + h + w, name)}

\* #+\s+name matches at offset o
PrefixAt(text, o, name) ==
    HashRun(text, o) >= 1 /\ SpaceWidths(text, o, name) # {}

\* offset just after the name; \s+ is greedy, so the widest width is tried first
PrefixEnd(text, o, name) ==
    LET h == HashRun(text, o)
        ws == SpaceWidths(text, o, name)
        w == CHOOSE x \in ws : \A y \in ws : y <= x
    IN  o + h + w + Len(name)

\* (?=\n#+\s+) at offset o
NextHeadingAt(text, o) ==
    /\ o < Len(text)
    /\ text[o + 1] = NL
    /\ HashRun(text, o + 1) >= 1
    /\ SpaceRun(text, o + 1 + HashRun(text, o + 1)) >= 1

\* $ without re.MULTILINE: end of text, or just before a final newline
DollarAt(text, o) ==
    \/ o = Len(text)
    \/ o = Len(text) - 1 /\ text[Len(text)] = NL

\* .*? with re.DOTALL: the first offset from o on where group 2 can match
LazyEnd(text, o) ==
    CHOOSE e \in o..Len(text) :
        /\ NextHeadingAt(text, e) \/ DollarAt(text, e)
        /\ \A f \in o..(e - 1) : ~(NextHeadingAt(text, f) \/ DollarAt(text, f))

NoMatch == [found |-> FALSE, start |-> 0, end |-> 0]

\* as the search, but the rightmost offset where the pattern matches is taken
Search_Rightmost(text, name) ==
    IF \E o \in 0..Len(text) : PrefixAt(text, o, name)
    THEN LET s == CHOOSE o \in 0..Len(text) :
                      /\ PrefixAt(text, o, name)
                      /\ \A p \in (o + 1)..Len(text) : ~PrefixAt(text, p, name)
         IN  [found |-> TRUE, start |-> s,
              end |-> LazyEnd(text, PrefixEnd(text, s, name))]
    ELSE NoMatch

\* the match object: leftmost offset where the pattern matches
Search(text, name) ==
    IF \E o \in 0..Len(text) : PrefixAt(text, o, name)
    THEN LET s == CHOOSE o \in 0..Len(text) :
                      /\ PrefixAt(text, o, name)
                      /\ \A p \in 0..(o - 1) : ~PrefixAt(text, p, name)
         IN  [found |-> TRUE, start |-> s,
              end |-> LazyEnd(text, PrefixEnd(text, s, name))]
    ELSE NoMatch

\* as _update_section_content, but the text after the span starts one character late
UpdateSectionContent_LateSuffix(content, section_name, new_content) ==
    LET match == Search(content, section_name)
    IN  IF match.found
        THEN LET section_header == RStrip(Slice(content, match.start, match.end))
                 updated_section == section_header \o <<NL, NL>> \o new_content \o <<NL>>
             IN  Slice(content, 0, match.start) \o updated_section
                     \o Slice(content, match.end + 1, Len(content))
        ELSE LET padded == IF EndsWithNL(content) THEN content ELSE content \o <<NL>>
             IN  padded \o <<NL, "#", "#", SP>> \o section_name
                     \o <<NL, NL>> \o new_content \o <<NL>>

\* ReadmeUpdater._update_section_content
UpdateSectionContent(content, section_name, new_content) ==
    LET match == Search(content, section_name)
    IN  IF match.found
        THEN LET section_header == RStrip(Slice(content, match.start, match.end))
                 updated_section == section_header \o <<NL, NL>> \o new_content \o <<NL>>
             IN  Slice(content, 0, match.start) \o updated_section
                     \o Slice(content, match.end, Len(content))
        ELSE LET padded == IF EndsWithNL(content) THEN content ELSE content \o <<NL>>
             IN  padded \o <<NL, "#", "#", SP>> \o section_name
                     \o <<NL, NL>> \o new_content \o <<NL>>

----------------------------------------------------------------------------
(* Badge insertion (add_badge) and changelog insertion (update_changelog). *)

BadgeOpen == <<"!", "[">>
LinkedBadgeOpen == <<"[", "!", "[">>

\* the test of line 145 on one line
LooksLikeBadge(line) ==
    StartsWith(Strip(line), BadgeOpen) \/ StartsWith(Strip(line), LinkedBadgeOpen)

\* as _find_badge_section, but the heading scan comes before the badge scan
FindBadgeSection_HeadingFirst(lines) ==
    IF \E i \in 0..(Len(lines) - 1) : StartsWith(lines[i + 1], <<"#">>)
    THEN 1 + (CHOOSE i \in 0..(Len(lines) - 1) :
                 /\ StartsWith(lines[i + 1], <<"#">>)
                 /\ \A j \in 0..(i - 1) : ~StartsWith(lines[j + 1], <<"#">>))
    ELSE IF \E i \in 0..(Len(lines) - 1) : LooksLikeBadge(lines[i + 1])
    THEN CHOOSE i \in 0..(Len(lines) - 1) :
             /\ LooksLikeBadge(lines[i + 1])
             /\ \A j \in 0..(i - 1) : ~LooksLikeBadge(lines[j + 1])
    ELSE -1

\* ReadmeUpdater._find_badge_section; indexes are 0-based, lines[i + 1] is line i
FindBadgeSection(lines) ==
    IF \E i \in 0..(Len(lines) - 1) : LooksLikeBadge(lines[i + 1])
    THEN CHOOSE i \in 0..(Len(lines) - 1) :
             /\ LooksLikeBadge(lines[i + 1])
             /\ \A j \in 0..(i - 1) : ~LooksLikeBadge(lines[j + 1])
    ELSE IF \E i \in 0..(Len(lines) - 1) : StartsWith(lines[i + 1], <<"#">>)
    THEN 1 + (CHOOSE i \in 0..(Len(lines) - 1) :
                 /\ StartsWith(lines[i + 1], <<"#">>)
                 /\ \A j \in 0..(i - 1) : ~StartsWith(lines[j + 1], <<"#">>))
    ELSE -1

\* lines[index] = x where the list has that index, else append
ListAssign(lines, index, x) ==
    IF index < Len(lines) THEN [lines EXCEPT ![index + 1] = x] ELSE Append(lines, x)

\* as add_badge, but the badge is assigned to the line instead of inserted
AddBadgeContent_Overwrite(current_content, badge_content) ==
    LET lines == Split(current_content)
        badge_line_index == FindBadgeSection(lines)
    IN  IF badge_line_index = -1
        THEN Join(ListAssign(ListInsert(lines, 2, <<>>), 3, badge_content))
        ELSE Join(ListAssign(lines, badge_line_index + 1, badge_content))

\* add_badge, lines 70-80: the text written for the text read
AddBadgeContent(current_content, badge_content) ==
    LET lines == Split(current_content)
        badge_line_index == FindBadgeSection(lines)
    IN  IF badge_line_index = -1
        THEN Join(ListInsert(ListInsert(lines, 2, <<>>), 3, badge_content))
        ELSE Join(ListInsert(lines, badge_line_index + 1, badge_content))

DigitChars == <<"0","1","2","3","4","5","6","7","8","9">>

\* zero-padded decimal of n in the given width
RECURSIVE Pad(_, _)
Pad(n, width) ==
    IF width = 0 THEN <<>>
    ELSE Pad(n \div 10, width - 1) \o <<DigitChars[(n % 10) + 1]>>

\* datetime.strftime("%Y-%m-%d")
FormatDate(now) ==
    Pad(now.year, 4) \o <<"-">> \o Pad(now.month, 2) \o <<"-">> \o Pad(now.day, 2)

\* the heading line of an entry: ## [version] - date
EntryHeading(version, date_str) ==
    <<"#", "#", SP, "[">> \o version \o <<"]", SP, "-", SP>> \o date_str

\* the bullet lines "- change\n" of lines 104-105
RECURSIVE Bullets(_)
Bullets(changes) ==
    IF Len(changes) = 0 THEN <<>>
    ELSE <<"-", SP>> \o changes[1] \o <<NL>> \o Bullets(Tail(changes))

\* new_entry of lines 103-105
NewEntry(version, date_str, changes) ==
    <<NL>> \o EntryHeading(version, date_str) \o <<NL, NL>> \o Bullets(changes)

EntryOpen == <<"#", "#", SP, "[">>
ChangelogWord == <<"c","h","a","n","g","e","l","o","g">>

\* as _find_changelog_insert_point, but the last "## [" line is taken, not the first
FindChangelogInsertPoint_LastEntry(lines) ==
    IF \E i \in 0..(Len(lines) - 1) : StartsWith(lines[i + 1], EntryOpen)
    THEN CHOOSE i \in 0..(Len(lines) - 1) :
             /\ StartsWith(lines[i + 1], EntryOpen)
             /\ \A j \in (i + 1)..(Len(lines) - 1) : ~StartsWith(lines[j + 1], EntryOpen)
    ELSE IF \E i \in 0..(Len(lines) - 1) : Contains(LowerText(lines[i + 1]), ChangelogWord)
    THEN 2 + (CHOOSE i \in 0..(Len(lines) - 1) :
                 /\ Contains(LowerText(lines[i + 1]), ChangelogWord)
                 /\ \A j \in 0..(i - 1) : ~Contains(LowerText(lines[j + 1]), ChangelogWord))
    ELSE Len(lines)

\* ReadmeUpdater._find_changelog_insert_point
FindChangelogInsertPoint(lines) ==
    IF \E i \in 0..(Len(lines) - 1) : StartsWith(lines[i + 1], EntryOpen)
    THEN CHOOSE i \in 0..(Len(lines) - 1) :
             /\ StartsWith(lines[i + 1], EntryOpen)
             /\ \A j \in 0..(i - 1) : ~StartsWith(lines[j + 1], EntryOpen)
    ELSE IF \E i \in 0..(Len(lines) - 1) : Contains(LowerText(lines[i + 1]), ChangelogWord)
    THEN 2 + (CHOOSE i \in 0..(Len(lines) - 1) :
                 /\ Contains(LowerText(lines[i + 1]), ChangelogWord)
                 /\ \A j \in 0..(i - 1) : ~Contains(LowerText(lines[j + 1]), ChangelogWord))
    ELSE Len(lines)

\* as the loop of lines 110-111, but every entry line goes in at insert_index
RECURSIVE InsertEntryLines_SameIndex(_, _, _, _)
InsertEntryLines_SameIndex(lines, insert_index, entry_lines, i) ==
    IF i >= Len(entry_lines) THEN lines
    ELSE InsertEntryLines_SameIndex(ListInsert(lines, insert_index, entry_lines[i + 1]),
                                    insert_index, entry_lines, i + 1)

\* the loop of lines 110-111: entry line k goes in at insert_index + k
RECURSIVE InsertEntryLines(_, _, _, _)
InsertEntryLines(lines, insert_index, entry_lines, i) ==
    IF i >= Len(entry_lines) THEN lines
    ELSE InsertEntryLines(ListInsert(lines, insert_index + i, entry_lines[i + 1]),
                          insert_index, entry_lines, i + 1)

\* update_changelog, lines 103-113: the text written for the text read
UpdateChangelogContent(current_content, version, date_str, changes) ==
    LET lines == Split(current_content)
        insert_index == FindChangelogInsertPoint(lines)
    IN  Join(InsertEntryLines(lines, insert_index,
                              Split(NewEntry(version, date_str, changes)), 0))

----------------------------------------------------------------------------
(* Texts used as files and arguments.                                      *)

L_Title == <<"#",SP,"T","i","t","l","e">>
L_Usage == <<"#","#",SP,"U","s","a","g","e">>
L_License == <<"#","#",SP,"L","i","c","e","n","s","e">>
L_UsageNotes == <<"#",SP,"u","s","a","g","e",SP,"n","o","t","e","s">>
L_UsagePadded == <<"#","#",SP,"U","s","a","g","e",SP,SP,SP>>
L_OldText == <<"O","l","d",SP,"t","e","x","t">>
L_MIT == <<"M","I","T">>
L_Text == <<"t","e","x","t">>
L_Hello == <<"h","e","l","l","o">>
L_SeeUsage == <<"s","e","e",SP,"#",SP,"U","s","a","g","e">>
L_HashOnly == <<"#">>
L_UsageWord == <<"U","s","a","g","e">>
L_Tag == <<"#","T","i","t","l","e">>
L_BadgeA == <<"!","[","a","]","(","u",")">>
L_BadgeB == <<"!","[","b","]","(","u",")">>
L_BadgeIndented == <<SP,SP,"!","[","a","]","(","u",")">>
L_BadgeLinked == <<"[","!","[","a","]","(","u",")","]","(","v",")">>
L_Changelog == <<"#",SP,"C","h","a","n","g","e","l","o","g">>
L_ChangelogUpper == <<"C","H","A","N","G","E","L","O","G">>
L_Notes == <<"n","o","t","e","s">>
L_Entry10 == <<"#","#",SP,"[","1",".","0","]",SP,"-",SP,"2","0","2","6","-","0","1","-","0","1">>
L_Entry09 == <<"#","#",SP,"[","0",".","9","]",SP,"-",SP,"2","0","2","5","-","1","2","-","0","1">>
L_Init == <<"-",SP,"I","n","i","t">>
N_usage == <<"u","s","a","g","e">>
N_Usage == <<"U","s","a","g","e">>
N_API == <<"A","P","I">>
T_NewText == <<"N","e","w",SP,"t","e","x","t">>
B_Build == <<"!","[","b","u","i","l","d","]","(","u","r","l",")">>
B_Plain == <<"b","u","i","l","d",":",SP,"o","k">>
V_11 == <<"1",".","1">>
V_20 == <<"2",".","0">>
Ch_Fix == <<"F","i","x",SP,"b","u","g">>
Ch_Add == <<"A","d","d",SP,"a","p","i">>

\* the text add_badge starts from when README.md does not exist (line 68)
DefaultReadme == <<"#",SP,"P","r","o","j","e","c","t",NL,NL>>

\* the text update_changelog starts from when CHANGELOG.md does not exist (line 98)
DefaultChangelog == <<"#",SP,"C","h","a","n","g","e","l","o","g",NL,NL,"A","l","l",SP,"n","o","t","a","b","l","e",SP,"c","h","a","n","g","e","s",SP,"t","o",SP,"t","h","i","s",SP,"p","r","o","j","e","c","t",SP,"w","i","l","l",SP,"b","e",SP,"d","o","c","u","m","e","n","t","e","d",SP,"i","n",SP,"t","h","i","s",SP,"f","i","l","e",".",NL,NL>>

\* what get_readme returns when README.md does not exist (line 21)
NoReadme == <<"#",SP,"P","r","o","j","e","c","t",SP,"R","E","A","D","M","E",NL,NL,"N","o",SP,"R","E","A","D","M","E",SP,"f","i","l","e",SP,"f","o","u","n","d",".">>

\* the document of the worked example of the section update
ExampleDoc == Join(<<L_Title, <<>>, L_Usage, L_OldText, <<>>, L_License, L_MIT, <<>>>>)

\* README.md contents the exploration starts from
ReadmeDocs == {
    <<>>,
    ExampleDoc,
    Join(<<L_Usage, L_OldText, <<>>, <<>>, <<>>, L_License>>),
    Join(<<L_Usage, L_OldText, <<>>>>),
    L_Usage,
    Join(<<L_UsagePadded, L_Text>>),
    Join(<<L_UsageNotes, L_Text, L_Usage, L_OldText, <<>>>>),
    Join(<<L_SeeUsage, L_Usage, L_Text, L_UsageNotes, L_MIT>>),
    L_SeeUsage,
    Join(<<L_HashOnly, L_UsageWord, L_Text, <<>>>>),
    Join(<<L_Title, L_Text>>),
    L_Title,
    Join(<<L_Title, <<>>, L_Text, <<>>>>),
    Join(<<L_Tag, L_Text>>),
    L_Hello,
    Join(<<L_Text, L_Hello, L_Text, L_Hello, <<>>>>),
    Join(<<L_BadgeA, L_Title, L_BadgeB>>),
    Join(<<L_Title, <<>>, L_BadgeA, L_BadgeB, <<>>, L_Usage, L_Text, <<>>>>),
    Join(<<L_Text, L_BadgeIndented, L_BadgeB>>),
    Join(<<L_Title, L_BadgeLinked, L_Text>>) }

\* CHANGELOG.md contents the exploration starts from
ChangelogDocs == {
    <<>>,
    Join(<<L_Changelog, <<>>, L_Entry10, <<>>, L_Init, <<>>>>),
    Join(<<L_Entry10, L_Init, L_Entry09, L_Init, <<>>>>),
    Join(<<L_Notes, L_Entry10, L_Init, L_Text>>),
    L_Changelog,
    Join(<<L_Changelog, <<>>>>),
    Join(<<L_Notes, L_ChangelogUpper, L_Text, L_Hello, L_Text>>),
    Join(<<L_Notes, L_Text, <<>>>>) }

SectionNames == {N_Usage, N_API}
Contents == {<<>>, T_NewText}
Badges == {B_Build, B_Plain}
Versions == {V_11, V_20}
ChangeLists == {<<>>, <<Ch_Add, Ch_Fix>>}
Clock == {[year |-> 2026, month |-> 11, day |-> 3], [year |-> 2027, month |-> 1, day |-> 15]}
WholeReadmes == {ExampleDoc}

----------------------------------------------------------------------------
(* State.                                                                  *)
(*   readme_exists, readme        README.md under repo_path                *)
(*   changelog_exists, changelog  CHANGELOG.md under repo_path             *)
(*   is_git, head                 whether Repo(repo_path) opens, and the   *)
(*                                message of its last commit               *)
(*   call       the last operation: its arguments, the text it read, what  *)
(*              it computed on the way and what it returned                *)
(*   inserted   the entry headings update_changelog put in, oldest first   *)
(*   base       the entry headings CHANGELOG.md started with               *)
(*   steps      number of operations so far                                *)
(*   tasks      per caller, the coroutine of its invocation: where it is,  *)
(*              its arguments, the text it read and the text it wrote      *)
(*   loop       the caller whose coroutine the event loop is running       *)
(*   config     which optional tool modules the server could import        *)
(*   response   the RPCResponse of the last request to /rpc                *)

NoCall == [op |-> "none", cur |-> <<>>, name |-> <<>>, content |-> <<>>,
           badge |-> <<>>, version |-> <<>>, changes |-> <<>>, date |-> <<>>,
           match |-> NoMatch, index |-> 0, commit |-> "none", log |-> "none",
           status |-> "none", rerun |-> {},
           result |-> <<>>]

\* the lines of a text that start with "## ["
EntryLines(text) == SelectSeq(Split(text), LAMBDA line : StartsWith(line, EntryOpen))

NoCommit == <<>>

Callers == {"c1", "c2"}

NoRequest == [op |-> "none", name |-> <<>>, content |-> <<>>, badge |-> <<>>,
              version |-> <<>>, changes |-> <<>>]

IdleTask == [pc |-> "idle", req |-> NoRequest, current |-> <<>>, result |-> <<>>]

\* lines 16-38 of server.py with every optional import failing
NoOptionalTools == [neo4j |-> FALSE, code_analysis |-> FALSE, project_management |-> FALSE]

NoResponse == [request |-> [method |-> "none", id |-> 0], id |-> 0, error |-> 0,
               handler |-> <<>>, raised |-> FALSE, result |-> "none"]

Init ==
    /\ \/ /\ readme_exists = TRUE /\ readme \in ReadmeDocs
          /\ changelog_exists = FALSE /\ changelog = <<>>
       \/ /\ readme_exists = FALSE /\ readme = <<>>
          /\ changelog_exists \in BOOLEAN
          /\ changelog \in IF changelog_exists THEN ChangelogDocs ELSE {<<>>}
    /\ is_git \in BOOLEAN
    /\ head = NoCommit
    /\ call = NoCall
    /\ inserted = <<>>
    /\ base = EntryLines(changelog)
    /\ steps = 0
    /\ tasks = [c \in Callers |-> IdleTask]
    /\ loop = "none"
    /\ config = NoOptionalTools
    /\ response = NoResponse

\* ReadmeUpdater._commit_changes after ReadmeUpdater._is_git_repo: the commit
\* is attempted only in a repository, and an exception in it is swallowed
Commit(message, ok) ==
    IF is_git /\ ok THEN head' = message ELSE head' = head

CommitOutcome(ok) == IF ~is_git THEN "skipped" ELSE IF ok THEN "committed" ELSE "failed"

\* what _commit_changes logs: info after the commit, warning in its except clause
LogAfterCommit(outcome) ==
    IF outcome = "committed" THEN "info" ELSE IF outcome = "failed" THEN "warning" ELSE "none"

\* as below, but an exception of the commit reaches the handler, which re-raises it
StatusAfterCommit_Propagates(outcome) == IF outcome = "failed" THEN "error" ELSE "success"

\* what update and update_section return after the commit step: _commit_changes
\* catches its own exceptions, so the handler goes on to return success
StatusAfterCommit(outcome) == "success"

\* ReadmeUpdater.get_readme
GetReadme ==
    /\ steps < MaxSteps
    /\ call' = [NoCall EXCEPT !.op = "get_readme",
                              !.cur = readme,
                              !.result = IF readme_exists THEN readme ELSE NoReadme,
                              !.status = "success"]
    /\ steps' = steps + 1
    /\ UNCHANGED <<tasks, loop, config, response>>
    /\ UNCHANGED <<readme_exists, readme, changelog_exists, changelog,
                   is_git, head, inserted, base>>

\* ReadmeUpdater.update
Update(content, ok) ==
    /\ steps < MaxSteps
    /\ readme' = content
    /\ readme_exists' = TRUE
    /\ Commit(<<"Update README.md">>, ok)
    /\ call' = [NoCall EXCEPT !.op = "update",
                              !.cur = readme,
                              !.content = content,
                              !.commit = CommitOutcome(ok),
                              !.log = LogAfterCommit(CommitOutcome(ok)),
                              !.result = content,
                              !.status = StatusAfterCommit(CommitOutcome(ok))]
    /\ steps' = steps + 1
    /\ UNCHANGED <<tasks, loop, config, response>>
    /\ UNCHANGED <<changelog_exists, changelog, is_git, inserted, base>>

\* ReadmeUpdater.update_section
UpdateSection(section_name, new_content, ok) ==
    /\ steps < MaxSteps
    /\ LET current_content == IF readme_exists THEN readme ELSE <<>>
           updated_content == UpdateSectionContent(current_content, section_name, new_content)
       IN  /\ readme' = updated_content
           /\ readme_exists' = TRUE
           /\ Commit(<<"Update README.md - ">> \o section_name \o <<" section">>, ok)
           /\ call' = [NoCall EXCEPT !.op = "update_section",
                                     !.cur = current_content,
                                     !.name = section_name,
                                     !.content = new_content,
                                     !.match = Search(current_content, section_name),
                                     !.commit = CommitOutcome(ok),
                              !.log = LogAfterCommit(CommitOutcome(ok)),
                                     !.result = updated_content,
                                     !.rerun = {updated_content},
                                     !.status = StatusAfterCommit(CommitOutcome(ok))]
    /\ steps' = steps + 1
    /\ UNCHANGED <<tasks, loop, config, response>>
    /\ UNCHANGED <<changelog_exists, changelog, is_git, inserted, base>>

\* ReadmeUpdater.add_badge
AddBadge(badge_content) ==
    /\ steps < MaxSteps
    /\ LET current_content == IF readme_exists THEN readme ELSE DefaultReadme
           updated_content == AddBadgeContent(current_content, badge_content)
       IN  /\ readme' = updated_content
           /\ readme_exists' = TRUE
           /\ call' = [NoCall EXCEPT !.op = "add_badge",
                                     !.cur = current_content,
                                     !.badge = badge_content,
                                     !.index = FindBadgeSection(Split(current_content)),
                                     !.result = updated_content,
                                     !.rerun = {updated_content},
                                     !.status = "success"]
    /\ steps' = steps + 1
    /\ UNCHANGED <<tasks, loop, config, response>>
    /\ UNCHANGED <<changelog_exists, changelog, is_git, head, inserted, base>>

\* the texts update_changelog can write for one text read and one (version, changes):
\* the date is not an argument, line 101 takes it from the clock at the time of the call
WrittenOnAnyDay(current_content, version, changes) ==
    {UpdateChangelogContent(current_content, version, FormatDate(now), changes) : now \in Clock}

\* ReadmeUpdater.update_changelog
UpdateChangelog(version, changes, now) ==
    /\ steps < MaxSteps
    /\ LET current_content == IF changelog_exists THEN changelog ELSE DefaultChangelog
           date_str == FormatDate(now)
           updated_content == UpdateChangelogContent(current_content, version, date_str, changes)
       IN  /\ changelog' = updated_content
           /\ changelog_exists' = TRUE
           /\ inserted' = Append(inserted, EntryHeading(version, date_str))
           /\ call' = [NoCall EXCEPT !.op = "update_changelog",
                                     !.cur = current_content,
                                     !.version = version,
                                     !.changes = changes,
                                     !.date = date_str,
                                     !.index = FindChangelogInsertPoint(Split(current_content)),
                                     !.result = updated_content,
                                     !.rerun = WrittenOnAnyDay(current_content, version, changes),
                                     !.status = "success"]
    /\ steps' = steps + 1
    /\ UNCHANGED <<tasks, loop, config, response>>
    /\ UNCHANGED <<readme_exists, readme, is_git, head, base>>

Next ==
    \/ GetReadme
    \/ \E content \in WholeReadmes, ok \in BOOLEAN : Update(content, ok)
    \/ \E section_name \in SectionNames, new_content \in Contents, ok \in BOOLEAN :
           UpdateSection(section_name, new_content, ok)
    \/ \E badge_content \in Badges : AddBadge(badge_content)
    \/ \E version \in Versions, changes \in ChangeLists, now \in Clock :
           UpdateChangelog(version, changes, now)

----------------------------------------------------------------------------
(* Vocabulary of the properties.                                           *)

PatchOps == {"update_section", "add_badge", "update_changelog"}

\* the last operation was update_section and it found a section
SectionFound == call.op = "update_section" /\ call.match.found

\* text before and after the matched span, and the span itself
SpanPrefix == Slice(call.cur, 0, call.match.start)
SpanSuffix == Slice(call.cur, call.match.end, Len(call.cur))
SpanText == Slice(call.cur, call.match.start, call.match.end)

\* the heading line of the matched span: the span up to its first line break
MatchedHeadingLine == Split(SpanText)[1]

\* the section as the update is to leave it: heading line, blank line, content, newline
ReplacedSection == MatchedHeadingLine \o <<NL, NL>> \o call.content \o <<NL>>

\* a line that is a heading for the name: '#' markers, blanks, then the name
IsHeadingFor(line, name) ==
    \E h \in 1..Len(line), w \in 1..Len(line) :
        /\ \A i \in 1..h : line[i] = "#"
        /\ h + w + Len(name) <= Len(line)
        /\ \A i \in (h + 1)..(h + w) : line[i] \in {SP, TAB}
        /\ \A i \in 1..Len(name) : Lower(line[h + w + i]) = Lower(name[i])

\* the text has a heading line for the name
HasHeadingFor(text, name) ==
    \E i \in 1..Len(Split(text)) : IsHeadingFor(Split(text)[i], name)

\* the text starts with a line break followed by a heading marker
StartsAtHeading(text) ==
    /\ Len(text) >= 3
    /\ text[1] = NL
    /\ \E h \in 1..(Len(text) - 2) :
          /\ \A i \in 2..(h + 1) : text[i] = "#"
          /\ IsSpace(text[h + 2])

\* number of places where needle occurs in text
Occurrences(text, needle) ==
    Cardinality({o \in 0..(Len(text) - Len(needle)) :
                    SubSeq(text, o + 1, o + Len(needle)) = needle})

ExampleExpected == <<"#",SP,"T","i","t","l","e",NL,NL,"#","#",SP,"U","s","a","g","e",NL,NL,"N","e","w",SP,"t","e","x","t",NL,NL,"#","#",SP,"L","i","c","e","n","s","e",NL,"M","I","T",NL>>

----------------------------------------------------------------------------
(* C1: update_section on a document with a heading for the section keeps   *)
(* the matched heading line, drops the old body and puts heading line,     *)
(* blank line, content, newline in place of the matched span; on the       *)
(* example document with "Usage" and "New text" it gives the example       *)
(* result.                                                                 *)
C1_BodyReplaced ==
    (SectionFound /\ HasHeadingFor(call.cur, call.name)) =>
        /\ call.result = SpanPrefix \o ReplacedSection \o SpanSuffix
        /\ (call.cur = ExampleDoc /\ call.name = N_Usage /\ call.content = T_NewText)
               => call.result = ExampleExpected

(* C2: two update_section calls in a row with the same section and content *)
(* leave the content exactly once in the section: the second call replaces *)
(* the body, it does not append to it.                                     *)
SameUpdateAgain ==
    /\ call.op = "update_section"
    /\ call'.op = "update_section"
    /\ steps' = steps + 1
    /\ call'.name = call.name
    /\ call'.content = call.content

\* the section of the name in a text: from its heading to the next heading or the end
SectionOf(text, name) ==
    LET m == Search(text, name)
    IN  Slice(text, m.start, m.end)

C2_SecondUpdateReplaces ==
    [][(SameUpdateAgain /\ call.content # <<>>)
          => Occurrences(SectionOf(readme', call.name), call.content) = 1]_vars

(* C3: when a section is found, the result is the text before the matched *)
(* span, then the new section text (which starts with the matched heading  *)
(* line and ends with blank line, content, newline), then the text after   *)
(* the span, both kept as they are; the text after the span is empty, the  *)
(* final line break, or starts at the line break before the next heading,  *)
(* and no heading marker lies inside the span after the section name.      *)
C3_OutsideSpanKept ==
    SectionFound =>
        LET n == Len(call.result)
            tail == Len(SpanSuffix)
        IN  /\ call.match.start <= call.match.end
            /\ n >= Len(SpanPrefix) + tail
            /\ SubSeq(call.result, 1, Len(SpanPrefix)) = SubSeq(call.cur, 1, Len(SpanPrefix))
            /\ SubSeq(call.result, n - tail + 1, n)
                   = SubSeq(call.cur, Len(call.cur) - tail + 1, Len(call.cur))
            /\ LET section == SubSeq(call.result, Len(SpanPrefix) + 1, n - tail)
                   ending == <<NL, NL>> \o call.content \o <<NL>>
               IN  /\ StartsWith(section, MatchedHeadingLine)
                   /\ Len(section) >= Len(MatchedHeadingLine) + Len(ending)
                   /\ SubSeq(section, Len(section) - Len(ending) + 1, Len(section)) = ending
            /\ \/ SpanSuffix = <<>>
               \/ SpanSuffix = <<NL>>
               \/ StartsAtHeading(SpanSuffix)
            /\ \A o \in (call.match.start + Len(call.name) + 2)..(call.match.end - 1) :
                   ~StartsAtHeading(Slice(call.cur, o, Len(call.cur)))
            /\ readme = call.result

C3_Witness ==
    /\ SectionFound
    /\ Len(SpanPrefix) > 0
    /\ StartsAtHeading(SpanSuffix)
    /\ call.content # <<>>
    /\ Len(Split(SpanText)) > 1

(* C4: on a document with no heading for the section, update_section       *)
(* returns the document, plus a newline when it does not end in one, plus  *)
(* a new "## name" heading and the content.                                *)
AppendedSection ==
    (IF EndsWithNL(call.cur) THEN call.cur ELSE call.cur \o <<NL>>)
        \o <<NL, "#", "#", SP>> \o call.name \o <<NL, NL>> \o call.content \o <<NL>>

C4_AppendedWhenNoHeading ==
    (call.op = "update_section" /\ ~HasHeadingFor(call.cur, call.name))
        => call.result = AppendedSection

(* C5: every patch operation either makes the document strictly longer,    *)
(* or is an update_section that replaces the whole body of the section     *)
(* and keeps its heading line verbatim.                                    *)
C5_LongerOrBodyReplaced ==
    call.op \in PatchOps =>
        \/ Len(call.result) > Len(call.cur)
        \/ /\ SectionFound
           /\ call.result = SpanPrefix \o ReplacedSection \o SpanSuffix

----------------------------------------------------------------------------
(* Vocabulary of the badge and changelog properties.                       *)

CurLines == Split(call.cur)
ResultLines == Split(call.result)

\* a heading line for add_badge: a line with the '#' prefix
IsHashLine(line) == Len(line) > 0 /\ line[1] = "#"

HashLineCount(lines) == Cardinality({i \in 1..Len(lines) : IsHashLine(lines[i])})
BadgeLineCount(lines) == Cardinality({i \in 1..Len(lines) : LooksLikeBadge(lines[i])})

\* position (from 1) of the first line with the property, 0 when there is none
FirstLine(lines, P(_)) ==
    IF \E i \in 1..Len(lines) : P(lines[i])
    THEN CHOOSE i \in 1..Len(lines) : P(lines[i]) /\ \A j \in 1..(i - 1) : ~P(lines[j])
    ELSE 0

\* small is large with some elements left out, order kept
RECURSIVE IsSubsequence(_, _)
IsSubsequence(small, large) ==
    IF Len(small) = 0 THEN TRUE
    ELSE IF Len(large) = 0 THEN FALSE
    ELSE IF small[1] = large[1] THEN IsSubsequence(Tail(small), Tail(large))
    ELSE IsSubsequence(small, Tail(large))

RECURSIVE Reverse(_)
Reverse(s) == IF Len(s) = 0 THEN <<>> ELSE Reverse(Tail(s)) \o <<s[1]>>

BadgeExampleExpected == <<"#",SP,"P","r","o","j","e","c","t",NL,NL,"!","[","b","u","i","l","d","]","(","u","r","l",")",NL>>

AddedBadgeTo(hashLines, badgeLines) ==
    /\ call.op = "add_badge"
    /\ (HashLineCount(CurLines) > 0) = hashLines
    /\ (BadgeLineCount(CurLines) > 0) = badgeLines

(* C6: add_badge on a document with no heading line and no badge line      *)
(* gives a document with exactly one heading line and exactly one badge    *)
(* line; on the empty document with the badge "![build](url)" it gives     *)
(* "# Project\n\n![build](url)\n".                                         *)
C6_DefaultDocumentSynthesized ==
    (AddedBadgeTo(FALSE, FALSE) /\ LooksLikeBadge(call.badge)) =>
        /\ HashLineCount(ResultLines) = 1
        /\ BadgeLineCount(ResultLines) = 1
        /\ (call.cur = <<>> /\ call.badge = B_Build) => call.result = BadgeExampleExpected

(* C7: with a heading line and no badge line, add_badge puts the badge two *)
(* lines below the first heading with exactly one blank line between the   *)
(* heading and the badge.                                                  *)
C7_BlankLineBeforeBadge ==
    AddedBadgeTo(TRUE, FALSE) =>
        LET h == FirstLine(CurLines, IsHashLine)
        IN  /\ Len(ResultLines) >= h + 2
            /\ ResultLines[h] = CurLines[h]
            /\ ResultLines[h + 1] = <<>>
            /\ ResultLines[h + 2] = call.badge

C9_NoLineRemoved ==
    call.op = "add_badge" =>
        /\ IsSubsequence(CurLines, ResultLines)
        /\ Len(ResultLines) > Len(CurLines)
        /\ BadgeLineCount(ResultLines) >= BadgeLineCount(CurLines)
        /\ readme = call.result

C9_Witness ==
    /\ AddedBadgeTo(FALSE, FALSE)
    /\ Len(CurLines) >= 4
    /\ steps = 1

(* C10: update_changelog makes the new entry the top-most one: with a line *)
(* starting with "## [" in the document, the lines of the new entry go in  *)
(* right before the first such line; in every case the heading of the new  *)
(* entry is the first "## [" line of the result; so the entry headings put *)
(* in stand in reverse order of insertion, before the ones there at first. *)
ExpectedHeading == <<"#", "#", SP, "[">> \o call.version \o <<"]", SP, "-", SP>> \o call.date

ExpectedEntryLines ==
    <<<<>>, ExpectedHeading, <<>>>>
        \o [i \in 1..Len(call.changes) |-> <<"-", SP>> \o call.changes[i]]
        \o <<<<>>>>

IsEntryLine(line) == StartsWith(line, EntryOpen)

C10_NewEntryOnTop ==
    /\ call.op = "update_changelog" =>
          LET k == FirstLine(CurLines, IsEntryLine)
          IN  /\ k > 0 => ResultLines = SubSeq(CurLines, 1, k - 1) \o ExpectedEntryLines
                                            \o SubSeq(CurLines, k, Len(CurLines))
              /\ FirstLine(ResultLines, IsEntryLine) > 0
              /\ ResultLines[FirstLine(ResultLines, IsEntryLine)] = ExpectedHeading
              /\ changelog = call.result
    /\ EntryLines(changelog) = Reverse(inserted) \o base

C10_Witness ==
    /\ call.op = "update_changelog"
    /\ Len(inserted) = 2
    /\ inserted[1] # inserted[2]
    /\ Len(base) = 2
    /\ FirstLine(CurLines, IsEntryLine) > 1
    /\ Len(call.changes) = 2

----------------------------------------------------------------------------
(* Vocabulary of the fallback, tie-break and line-start properties.        *)

\* the line has the word "changelog" in it, in any case
HasChangelogWord(line) ==
    \E o \in 0..(Len(line) - 9) :
        \A i \in 1..9 : Lower(line[o + i]) = ChangelogWord[i]

Min(a, b) == IF a < b THEN a ELSE b

\* offset of the first character of line i (from 1) of a text
LineStart(text, i) ==
    LET lines == Split(text)
        F[k \in 0..(i - 1)] == IF k = 0 THEN 0 ELSE F[k - 1] + Len(lines[k]) + 1
    IN  F[i - 1]

\* positions (from 1) of the lines that are headings for the name
HeadingLinesFor(text, name) ==
    {i \in 1..Len(Split(text)) : IsHeadingFor(Split(text)[i], name)}

\* '#' markers, whitespace and the name stand at offset o of the text
OccursAt(text, o, name) ==
    \E h \in 1..(Len(text) - o), w \in 1..(Len(text) - o) :
        /\ o + h + w + Len(name) <= Len(text)
        /\ \A i \in 1..h : text[o + i] = "#"
        /\ \A i \in (h + 1)..(h + w) : IsSpace(text[o + i])
        /\ \A i \in 1..Len(name) : Lower(text[o + h + w + i]) = Lower(name[i])

(* C11: with no "## [" line, update_changelog puts the entry two lines     *)
(* below the first line that has the word "changelog" (any case), and at   *)
(* the end of the document when there is no such line; the lines of the    *)
(* entry stay together and in order, also when the index is past the end.  *)
C11_FallbackInsertPoint ==
    (call.op = "update_changelog" /\ FirstLine(CurLines, IsEntryLine) = 0) =>
        LET c == FirstLine(CurLines, HasChangelogWord)
            at == IF c > 0 THEN Min(c + 1, Len(CurLines)) ELSE Len(CurLines)
        IN  /\ ResultLines = SubSeq(CurLines, 1, at) \o ExpectedEntryLines
                                 \o SubSeq(CurLines, at + 1, Len(CurLines))
            /\ changelog = call.result

C11_Witness ==
    /\ call.op = "update_changelog"
    /\ FirstLine(CurLines, IsEntryLine) = 0
    /\ FirstLine(CurLines, HasChangelogWord) = Len(CurLines)
    /\ Len(call.changes) = 2
    /\ changelog_exists

C13_HeadingOnlyAtLineStart ==
    call.op = "update_section" =>
        /\ call.match.found =>
              \E i \in HeadingLinesFor(call.cur, call.name) :
                  LineStart(call.cur, i) = call.match.start
        /\ ~HasHeadingFor(call.cur, call.name) => call.result = AppendedSection

(* C14: a failure of the commit step is logged and dropped: update and     *)
(* update_section report success and README.md stays as written, whether   *)
(* the commit was made, failed, or was not tried outside a git repository. *)
C14_CommitFailureSwallowed ==
    call.op \in {"update", "update_section"} =>
        /\ call.status = "success"
        /\ readme_exists /\ readme = call.result
        /\ call.commit \in {"committed", "failed", "skipped"}
        /\ (call.commit = "skipped") = ~is_git
        /\ call.commit = "failed" => call.log = "warning"
        /\ call.commit = "committed" =>
               head \in {<<"Update README.md">>,
                         <<"Update README.md - ">> \o call.name \o <<" section">>}

C14_Witness ==
    /\ call.op = "update_section"
    /\ call.commit = "failed"
    /\ call.content # <<>>
    /\ call.result # call.cur

(* C15: each patch operation is a function of the document text and its    *)
(* arguments: another invocation with the same text and the same arguments *)
(* returns the same text, whatever the clock shows.                        *)
C15_SameInputsSameText ==
    call.op \in PatchOps => call.rerun = {call.result}

----------------------------------------------------------------------------
(* Two callers invoking the patch operations on one event loop.  The       *)
(* handlers are coroutines (async def) with no await in their bodies, so   *)
(* the event loop runs a handler from its first line to its return before  *)
(* it runs anything else.                                                  *)

SectionRequest(section_name, new_content) ==
    [NoRequest EXCEPT !.op = "update_section", !.name = section_name, !.content = new_content]
BadgeRequest(badge_content) ==
    [NoRequest EXCEPT !.op = "add_badge", !.badge = badge_content]
ChangelogRequest(version, changes) ==
    [NoRequest EXCEPT !.op = "update_changelog", !.version = version, !.changes = changes]

Requests == {SectionRequest(N_Usage, T_NewText), SectionRequest(N_API, T_NewText),
             BadgeRequest(B_Build), ChangelogRequest(V_11, <<Ch_Fix>>)}

ConcurrentReadmes == {ExampleDoc, L_Title}
ConcurrentChangelogs == {Join(<<L_Changelog, <<>>, L_Entry10, <<>>, L_Init, <<>>>>)}

\* the text the operation reads: lines 45, 68, 95-98
TextRead(op) ==
    IF op = "update_changelog"
    THEN IF changelog_exists THEN changelog ELSE DefaultChangelog
    ELSE IF op = "add_badge"
    THEN IF readme_exists THEN readme ELSE DefaultReadme
    ELSE IF readme_exists THEN readme ELSE <<>>

\* the text the operation computes from the text it read
TextComputed(req, current_content, now) ==
    IF req.op = "update_changelog"
    THEN UpdateChangelogContent(current_content, req.version, FormatDate(now), req.changes)
    ELSE IF req.op = "add_badge"
    THEN AddBadgeContent(current_content, req.badge)
    ELSE UpdateSectionContent(current_content, req.name, req.content)

\* as below, but there is an await after the read, where the coroutine gives up the loop
LoopAfterRead_Awaits(c) == "none"

\* who holds the event loop after the read: there is no await between the read
\* and the write (lines 45-53, 68-81, 95-114), the coroutine keeps running
LoopAfterRead(c) == c

InitConcurrent ==
    /\ readme_exists \in BOOLEAN
    /\ readme \in IF readme_exists THEN ConcurrentReadmes ELSE {<<>>}
    /\ changelog_exists \in BOOLEAN
    /\ changelog \in IF changelog_exists THEN ConcurrentChangelogs ELSE {<<>>}
    /\ is_git \in BOOLEAN
    /\ head = NoCommit
    /\ call = NoCall
    /\ inserted = <<>>
    /\ base = EntryLines(changelog)
    /\ steps = 0
    /\ tasks = [c \in Callers |-> IdleTask]
    /\ loop = "none"
    /\ config = NoOptionalTools
    /\ response = NoResponse

\* a caller calls one of the operations: its coroutine is created and waits for the loop
Invoke(c, req) ==
    /\ tasks[c].pc = "idle"
    /\ tasks' = [tasks EXCEPT ![c] = [IdleTask EXCEPT !.pc = "called", !.req = req]]
    /\ UNCHANGED <<readme_exists, readme, changelog_exists, changelog, is_git, head,
                   call, inserted, base, steps, loop, config, response>>

\* the loop starts the coroutine, which reads the file: lines 45, 68, 95-98
ReadFile(c) ==
    /\ tasks[c].pc = "called"
    /\ loop = "none"
    /\ tasks' = [tasks EXCEPT ![c].pc = "read", ![c].current = TextRead(tasks[c].req.op)]
    /\ loop' = LoopAfterRead(c)
    /\ UNCHANGED <<readme_exists, readme, changelog_exists, changelog, is_git, head,
                   call, inserted, base, steps, config, response>>

\* the coroutine computes the new text and writes the file: lines 47-53, 70-81, 100-114
WriteFile(c, now) ==
    /\ tasks[c].pc = "read"
    /\ loop \in {"none", c}
    /\ LET req == tasks[c].req
           updated_content == TextComputed(req, tasks[c].current, now)
       IN  /\ tasks' = [tasks EXCEPT ![c].pc = "written", ![c].result = updated_content]
           /\ IF req.op = "update_changelog"
              THEN /\ changelog' = updated_content
                   /\ changelog_exists' = TRUE
                   /\ inserted' = Append(inserted, EntryHeading(req.version, FormatDate(now)))
                   /\ UNCHANGED <<readme, readme_exists>>
              ELSE /\ readme' = updated_content
                   /\ readme_exists' = TRUE
                   /\ UNCHANGED <<changelog, changelog_exists, inserted>>
    /\ loop' = c
    /\ UNCHANGED <<is_git, head, call, base, steps, config, response>>

\* the coroutine commits where the operation does (lines 55-56) and returns
Return(c, ok) ==
    /\ tasks[c].pc = "written"
    /\ loop \in {"none", c}
    /\ IF tasks[c].req.op = "update_section"
       THEN Commit(<<"Update README.md - ">> \o tasks[c].req.name \o <<" section">>, ok)
       ELSE head' = head
    /\ tasks' = [tasks EXCEPT ![c].pc = "returned"]
    /\ loop' = "none"
    /\ UNCHANGED <<readme_exists, readme, changelog_exists, changelog, is_git,
                   call, inserted, base, steps, config, response>>

NextConcurrent ==
    \/ \E c \in Callers, req \in Requests : Invoke(c, req)
    \/ \E c \in Callers : ReadFile(c)
    \/ \E c \in Callers, now \in Clock : WriteFile(c, now)
    \/ \E c \in Callers, ok \in BOOLEAN : Return(c, ok)

SpecConcurrent == InitConcurrent /\ [][NextConcurrent]_vars

\* the file an operation works on
FileOf(op) == IF op = "update_changelog" THEN "CHANGELOG.md" ELSE "README.md"

\* the text of a file now
TextOf(file) == IF file = "CHANGELOG.md" THEN changelog ELSE readme

\* the text a fresh read of the file of the operation gives now
TextNow(op) == TextRead(op)

----------------------------------------------------------------------------
(* server.py: handle_rpc builds the handler table on every request, looks  *)
(* the method up and awaits the handler, all inside one try block.         *)

\* the public and private methods of the three collaborators
PRAgentMethods ==
    {"analyze_changes", "generate_description", "select_reviewers", "analyze_pr_changes",
     "process_new_pr", "_summarize_changes", "_assess_impact", "_generate_suggestions",
     "_identify_test_requirements", "_get_code_owners", "_get_recent_contributors",
     "_parse_repo_url", "_build_pr_description_prompt", "_suggest_labels"}
DocumentationGeneratorMethods ==
    {"generate", "update_project_docs", "_generate_api_docs", "_generate_component_docs",
     "_generate_architecture_docs", "_generate_general_docs", "_read_file",
     "_detect_file_type", "_update_docs_index"}
ReadmeUpdaterMethods ==
    {"get_readme", "update", "update_section", "add_badge", "update_changelog",
     "_update_section_content", "_find_badge_section", "_find_changelog_insert_point",
     "_is_git_repo", "_commit_changes"}

\* the optional tool modules, where they import, have the methods the table names
Neo4jToolsMethods ==
    {"query_graph", "visualize_relationships", "analyze_code_dependencies",
     "find_similar_patterns", "extract_knowledge"}
CodeAnalysisToolsMethods == {"analyze_code_quality", "calculate_metrics"}
ProjectManagementToolsMethods == {"analyze_team_velocity", "generate_reports"}

\* getattr on the module-level objects of server.py
HasAttr(obj, attr) ==
    IF obj = "pr_agent" THEN attr \in PRAgentMethods
    ELSE IF obj = "doc_generator" THEN attr \in DocumentationGeneratorMethods
    ELSE IF obj = "readme_updater" THEN attr \in ReadmeUpdaterMethods
    ELSE IF obj = "neo4j_tools" THEN attr \in Neo4jToolsMethods
    ELSE IF obj = "code_analysis_tools" THEN attr \in CodeAnalysisToolsMethods
    ELSE attr \in ProjectManagementToolsMethods

Entry(key, obj, attr) == [key |-> key, obj |-> obj, attr |-> attr]

OriginalEntries ==
    << Entry("analyze_code_changes", "pr_agent", "analyze_changes"),
       Entry("generate_pr_description", "pr_agent", "generate_description"),
       Entry("select_reviewers", "pr_agent", "select_reviewers"),
       Entry("analyze_pr_changes", "pr_agent", "analyze_pr_changes"),
       Entry("generate_documentation", "doc_generator", "generate"),
       Entry("get_readme", "readme_updater", "get_readme"),
       Entry("update_readme", "readme_updater", "update"),
       Entry("update_project_docs", "doc_generator", "update_project_docs") >>
Neo4jEntries ==
    << Entry("query_graph", "neo4j_tools", "query_graph"),
       Entry("visualize_relationships", "neo4j_tools", "visualize_relationships"),
       Entry("analyze_code_dependencies", "neo4j_tools", "analyze_code_dependencies"),
       Entry("find_similar_patterns", "neo4j_tools", "find_similar_patterns"),
       Entry("extract_knowledge", "neo4j_tools", "extract_knowledge") >>
CodeAnalysisEntries ==
    << Entry("analyze_code_quality", "code_analysis_tools", "analyze_code_quality"),
       Entry("calculate_metrics", "code_analysis_tools", "calculate_metrics") >>
DocumentationEntries ==
    << Entry("generate_api_docs", "doc_generator", "generate_api_docs"),
       Entry("update_changelog", "doc_generator", "update_changelog"),
       Entry("search_documentation", "doc_generator", "search_documentation") >>
ProjectManagementEntries ==
    << Entry("analyze_team_velocity", "project_management_tools", "analyze_team_velocity"),
       Entry("generate_reports", "project_management_tools", "generate_reports") >>

\* the entries of method_handlers in the order the code evaluates them
TableSource(cfg) ==
    OriginalEntries
    \o (IF cfg.neo4j THEN Neo4jEntries ELSE <<>>)
    \o (IF cfg.code_analysis THEN CodeAnalysisEntries ELSE <<>>)
    \o DocumentationEntries
    \o (IF cfg.project_management THEN ProjectManagementEntries ELSE <<>>)

TableKeys(cfg) == {TableSource(cfg)[i].key : i \in DOMAIN TableSource(cfg)}

\* evaluating an entry's value raises AttributeError when the object has no such method
BuildRaises(cfg) ==
    \E i \in DOMAIN TableSource(cfg) :
        ~HasAttr(TableSource(cfg)[i].obj, TableSource(cfg)[i].attr)

\* method_handlers.get(request.method): the handler, or "none"
Lookup(cfg, method) ==
    IF method \in TableKeys(cfg)
    THEN LET i == CHOOSE j \in DOMAIN TableSource(cfg) : TableSource(cfg)[j].key = method
         IN  <<TableSource(cfg)[i].obj, TableSource(cfg)[i].attr>>
    ELSE <<>>

OptionalTools == [neo4j : BOOLEAN, code_analysis : BOOLEAN, project_management : BOOLEAN]

AllTools == [neo4j |-> TRUE, code_analysis |-> TRUE, project_management |-> TRUE]

Methods == TableKeys(AllTools) \cup {"no_such_method", "update_section", "add_badge"}

RequestIds == {1, 2}

InitRpc ==
    /\ readme_exists = TRUE
    /\ readme = ExampleDoc
    /\ changelog_exists = FALSE
    /\ changelog = <<>>
    /\ is_git = FALSE
    /\ head = NoCommit
    /\ call = NoCall
    /\ inserted = <<>>
    /\ base = EntryLines(changelog)
    /\ steps = 0
    /\ tasks = [c \in Callers |-> IdleTask]
    /\ loop = "none"
    /\ config \in OptionalTools
    /\ response = NoResponse

\* handle_rpc, lines 89-150; raises says whether the awaited handler raises
HandleRpc(method, id, raises) ==
    /\ response' =
         LET request == [method |-> method, id |-> id]
             handler == Lookup(config, method)
         IN  IF BuildRaises(config)
             THEN [request |-> request, id |-> id, error |-> -32603,
                   handler |-> <<>>, raised |-> FALSE, result |-> "none"]
             ELSE IF handler = <<>>
             THEN [request |-> request, id |-> id, error |-> -32601,
                   handler |-> <<>>, raised |-> FALSE, result |-> "none"]
             ELSE IF raises
             THEN [request |-> request, id |-> id, error |-> -32603,
                   handler |-> handler, raised |-> TRUE, result |-> "none"]
             ELSE [request |-> request, id |-> id, error |-> 0,
                   handler |-> handler, raised |-> FALSE, result |-> "returned"]
    /\ UNCHANGED <<readme_exists, readme, changelog_exists, changelog, is_git, head,
                   call, inserted, base, steps, tasks, loop, config>>

NextRpc == \E method \in Methods, id \in RequestIds, raises \in BOOLEAN : HandleRpc(method, id, raises)

SpecRpc == InitRpc /\ [][NextRpc]_vars

Answered == response.request.method # "none"

(* C17: in every configuration, a request for a method that is not a key   *)
(* of the handler table is answered with error -32601 and the request's id *)
(* and no handler is invoked; a request for a key of the table invokes     *)
(* exactly that key's handler, and error -32603 is answered only when that *)
(* handler raised.                                                         *)
C17_DispatchByTable ==
    Answered =>
        /\ response.id = response.request.id
        /\ IF response.request.method \notin TableKeys(config)
           THEN response.error = -32601 /\ response.handler = <<>>
           ELSE /\ response.handler = Lookup(config, response.request.method)
                /\ response.error = -32603 <=> response.raised
                /\ response.error \in {0, -32603}

Spec == Init /\ [][Next]_vars

====
